---- MODULE Spec2Model ----
(***************************************************************************)
(* Model of src/bot.py: an aiogram wizard that collects a game test report *)
(* (category, eight text answers, photos and videos), previews it and      *)
(* forwards it to a configured chat.                                       *)
(*                                                                         *)
(* Conventions.  An optional value (Python None or a value) is a sequence  *)
(* of length 0 or 1.  A Python str is a sequence of one-character strings. *)
(* Cyrillic letters are written as named characters ("cyr_n" ...) because  *)
(* the module is ASCII.  A rendered post is the sequence of its lines, a   *)
(* line being <<label, value>>.                                            *)
(***************************************************************************)
EXTENDS Integers, Sequences, FiniteSets, TLC

VARIABLES fsm_state, fsm_data, env_target, config_file, admin_ids, out, arrived,
          strays, scen, shown, rec, docs, tasks

vars ==
  <<fsm_state, fsm_data, env_target, config_file, admin_ids, out, arrived,
    strays, scen, shown, rec, docs, tasks>>

(***************************************************************************)
(* Bounds of the model.                                                    *)
(***************************************************************************)
\* largest number of messages with an attachment that the handlers of one
\* form take, as answers to its text questions or in its media phase
MaxMedia == 2

None == <<>>
Some(v) == <<v>>

Users == {"u1", "u2"}
\* users whose events the single-session specification delivers
ActiveUsers == {"u1"}

(***************************************************************************)
(* Python str operations used by the handlers and the renderer.            *)
(***************************************************************************)
Whitespace == {" ", "\n"}

LowerPairs ==
  { <<"N", "n">>, <<"O", "o">>, <<"E", "e">>, <<"B", "b">>, <<"U", "u">>,
    <<"G", "g">>, <<"F", "f">>, <<"X", "x">>,
    <<"CYR_N", "cyr_n">>, <<"CYR_E", "cyr_e">>, <<"CYR_T", "cyr_t">> }

\* str.lower() on one character
LowerChar(c) ==
  IF \E p \in LowerPairs : p[1] = c
  THEN (CHOOSE p \in LowerPairs : p[1] = c)[2]
  ELSE c

\* str.lower()
lower(s) == [i \in 1..Len(s) |-> LowerChar(s[i])]

RECURSIVE lstrip(_)
lstrip(s) == IF s # <<>> /\ Head(s) \in Whitespace THEN lstrip(Tail(s)) ELSE s

RECURSIVE rstrip(_)
rstrip(s) ==
  IF s # <<>> /\ s[Len(s)] \in Whitespace
  THEN rstrip(SubSeq(s, 1, Len(s) - 1))
  ELSE s

\* str.strip()
strip(s) == rstrip(lstrip(s))

\* x or ""  for an optional str
OrEmpty(opt) == IF opt = None \/ opt[1] = <<>> THEN <<>> ELSE opt[1]

(***************************************************************************)
(* The FSM storage: Form states and the data dictionary.                   *)
(***************************************************************************)
NoState == "none"

Form ==
  << "product", "game_title", "device", "app_version", "settings", "fps",
     "issues", "extra", "author", "media", "confirm" >>

States == {NoState} \cup {Form[i] : i \in 1..Len(Form)}

TextKeys ==
  {"game_title", "device", "app_version", "settings", "fps", "issues",
   "extra", "author"}

Keys == {"product", "media_bucket"} \cup TextKeys

\* the empty dictionary: no key is present
EmptyData ==
  [ product |-> None, game_title |-> None, device |-> None,
    app_version |-> None, settings |-> None, fps |-> None, issues |-> None,
    extra |-> None, author |-> None, media_bucket |-> None ]

\* state.update_data(k=v): merge one key into the dictionary
update_data(d, k, v) == [d EXCEPT ![k] = Some(v)]

\* data.get(k) or ""
GetOrEmpty(d, k) == OrEmpty(d[k])

MediaBucket(photos, videos) == [photos |-> photos, videos |-> videos]

\* the bucket a handler works on: the stored lists, or two empty lists
\* when the dictionary holds no bucket
ensure_media_bucket(d) ==
  IF d["media_bucket"] # None
  THEN MediaBucket(d["media_bucket"][1].photos, d["media_bucket"][1].videos)
  ELSE MediaBucket(<<>>, <<>>)

(***************************************************************************)
(* The renderer.                                                           *)
(***************************************************************************)
BlankLine == <<"", <<>>>>

ProductTitle(d) ==
  IF d["product"] = Some("winlator") THEN "Winlator" ELSE "GameHub"

VersionLabel(d) ==
  IF d["product"] = Some("winlator")
  THEN "app_version Winlator"
  ELSE "app_version GameHub"

\* g(key) of _format_post
g(d, key) == strip(GetOrEmpty(d, key))

OptionalLine(label, v) == IF v # <<>> THEN << <<label, v>> >> ELSE <<>>

\* mutant: the author line is not preceded by an empty line
AuthorLines_no_blank(v) == IF v # <<>> THEN << <<"author", v>> >> ELSE <<>>

AuthorLines(v) == IF v # <<>> THEN << BlankLine, <<"author", v>> >> ELSE <<>>

format_post(d) ==
  << <<"header", <<ProductTitle(d)>> >>,
     BlankLine,
     <<"game_title", g(d, "game_title")>>,
     <<"device", g(d, "device")>>,
     <<VersionLabel(d), g(d, "app_version")>>,
     <<"settings", g(d, "settings")>>,
     <<"fps", g(d, "fps")>> >>
  \o OptionalLine("issues", g(d, "issues"))
  \o OptionalLine("extra", g(d, "extra"))
  \o AuthorLines(g(d, "author"))

(***************************************************************************)
(* Destination configuration.                                              *)
(***************************************************************************)
\* _get_target_chat_id_from_env: env_target is the integer the variable
\* TARGET_CHAT_ID parses to, or None when it is unset or not an integer
get_target_chat_id_from_env == env_target

\* cfg.get("target_chat_id") of _load_config()
load_config ==
  IF get_target_chat_id_from_env # None
  THEN get_target_chat_id_from_env
  ELSE config_file

\* the test "not target_chat_id": None and 0 are falsy
Truthy(opt) == opt # None /\ opt[1] # 0

(***************************************************************************)
(* Inbound events.  A message carries an optional text, the list of sizes  *)
(* of a photo (empty when it has none) and an optional video.  A callback  *)
(* carries its data split at the colons.                                   *)
(***************************************************************************)
Message(text, photo, video) ==
  [text |-> text, photo |-> photo, video |-> video, kind |-> "message",
   data |-> <<>>]

TextMsg(t) == Message(Some(t), <<>>, None)
PhotoMsg(sizes) == Message(None, sizes, None)
VideoMsg(fid) == Message(None, <<>>, Some(fid))
CommandMsg(c) == TextMsg(<<"/", c>>)

Callback(data) ==
  [text |-> None, photo |-> <<>>, video |-> None, kind |-> "callback",
   data |-> data]

\* the Command(c) filter
IsCommand(ev, c) == ev.kind = "message" /\ ev.text = Some(<<"/", c>>)

TextHandlers ==
  {"game_title", "device", "app_version", "settings", "fps", "issues",
   "extra", "author"}

\* The handler the dispatcher runs for an event: the first registered
\* handler of the event's kind whose filters accept it.
Route(st, ev) ==
  IF ev.kind = "message"
  THEN IF IsCommand(ev, "start") THEN "start"
       ELSE IF IsCommand(ev, "cancel") THEN "cancel_cmd"
       ELSE IF IsCommand(ev, "set_target") THEN "set_target"
       ELSE IF st \in TextHandlers THEN st
       ELSE IF st = "media" /\ ev.photo # <<>> THEN "media_photo"
       ELSE IF st = "media" /\ ev.video # None THEN "media_video"
       ELSE "unhandled"
  ELSE IF ev.data = <<"cancel">> THEN "cancel_cb"
       ELSE IF st = "product" /\ Len(ev.data) >= 2 /\ ev.data[1] = "product"
            THEN "product_pick"
       ELSE IF st = "media" /\ ev.data = <<"media", "done">> THEN "media_done"
       ELSE IF st = "confirm" /\ ev.data = <<"confirm", "restart">>
            THEN "restart"
       ELSE IF st = "confirm" /\ ev.data = <<"confirm", "send">> THEN "send"
       ELSE "unhandled"

(***************************************************************************)
(* Handlers.  Each is the function from the stored dictionary (and the     *)
(* event) to the handler's outcome: the new FSM state and dictionary, the  *)
(* reply sent to the user, the gateway calls that succeeded and, when one  *)
(* failed, its index and the kind of fault.                                *)
(***************************************************************************)
Reply(kind, arg) == Some([kind |-> kind, arg |-> arg])

Result(st, d, reply, sends, fault) ==
  [data |-> d, reply |-> reply, sends |-> sends, fault |-> fault, state |-> st]

NoFault == [kind |-> "none", at |-> 0]

\* mutant: a new start sets the state but keeps the dictionary
start_keeps_data(d) ==
  Result("product", d, Reply("ask_product", <<>>), <<>>, NoFault)

start(d) ==
  Result("product", EmptyData, Reply("ask_product", <<>>), <<>>, NoFault)

cancel_cmd(d) ==
  Result(NoState, EmptyData, Reply("cancelled", <<>>), <<>>, NoFault)

\* mutant: the button resets the state but keeps the dictionary
cancel_cb_keeps_data(d) ==
  Result(NoState, d, Reply("cancelled", <<>>), <<>>, NoFault)

cancel_cb(d) ==
  Result(NoState, EmptyData, Reply("cancelled", <<>>), <<>>, NoFault)

product_pick(d, ev) ==
  Result("game_title", update_data(d, "product", ev.data[2]),
         Reply("ask_game_title", <<>>), <<>>, NoFault)

game_title(d, ev) ==
  Result("device", update_data(d, "game_title", OrEmpty(ev.text)),
         Reply("ask_device", <<>>), <<>>, NoFault)

device(d, ev) ==
  LET d2 == update_data(d, "device", OrEmpty(ev.text))
  IN  Result("app_version", d2,
             Reply("ask_app_version", <<ProductTitle(d2)>>), <<>>, NoFault)

app_version(d, ev) ==
  Result("settings", update_data(d, "app_version", OrEmpty(ev.text)),
         Reply("ask_settings", <<>>), <<>>, NoFault)

settings(d, ev) ==
  Result("fps", update_data(d, "settings", OrEmpty(ev.text)),
         Reply("ask_fps", <<>>), <<>>, NoFault)

fps(d, ev) ==
  Result("issues", update_data(d, "fps", OrEmpty(ev.text)),
         Reply("ask_issues", <<>>), <<>>, NoFault)

\* mutant: "none" is taken for a negative token as well
NegativeTokens_with_none ==
  { <<"cyr_n", "cyr_e", "cyr_t">>, <<"n", "o">>, <<"-">>,
    <<"n", "o", "n", "e">> }

NegativeTokens == { <<"cyr_n", "cyr_e", "cyr_t">>, <<"n", "o">>, <<"-">> }

\* mutant: the comparison with the tokens is case-sensitive
Normalize_case_sensitive(text) ==
  LET txt == strip(OrEmpty(text))
  IN  IF txt \in NegativeTokens THEN <<>> ELSE txt

\* "" if txt.lower() in {...} else txt,  with txt = (message.text or "").strip()
Normalize(text) ==
  LET txt == strip(OrEmpty(text))
  IN  IF lower(txt) \in NegativeTokens THEN <<>> ELSE txt

issues(d, ev) ==
  Result("extra", update_data(d, "issues", Normalize(ev.text)),
         Reply("ask_extra", <<>>), <<>>, NoFault)

extra(d, ev) ==
  Result("author", update_data(d, "extra", Normalize(ev.text)),
         Reply("ask_author", <<>>), <<>>, NoFault)

\* mutant: the media lists are not initialized
author_no_bucket(d, ev) ==
  Result("media", update_data(d, "author", OrEmpty(ev.text)),
         Reply("ask_media", <<>>), <<>>, NoFault)

author(d, ev) ==
  LET d2 == update_data(d, "author", OrEmpty(ev.text))
  IN  Result("media", update_data(d2, "media_bucket", MediaBucket(<<>>, <<>>)),
             Reply("ask_media", <<>>), <<>>, NoFault)

\* mutant: the smallest size of the photo is kept
BestPhoto_first(ev) == ev.photo[1]

\* message.photo[-1].file_id
BestPhoto(ev) == ev.photo[Len(ev.photo)]

media_photo(d, ev) ==
  LET bucket == ensure_media_bucket(d)
  IN  Result("media",
             update_data(d, "media_bucket",
                         MediaBucket(Append(bucket.photos, BestPhoto(ev)),
                                     bucket.videos)),
             None, <<>>, NoFault)

\* mutant: the video handler writes a bucket without the photos
media_video_drops_photos(d, ev) ==
  LET bucket == ensure_media_bucket(d)
  IN  Result("media",
             update_data(d, "media_bucket",
                         MediaBucket(<<>>, Append(bucket.videos, ev.video[1]))),
             None, <<>>, NoFault)

media_video(d, ev) ==
  LET bucket == ensure_media_bucket(d)
  IN  Result("media",
             update_data(d, "media_bucket",
                         MediaBucket(bucket.photos,
                                     Append(bucket.videos, ev.video[1]))),
             None, <<>>, NoFault)

\* mutant: the preview leaves out the author
media_done_previews_without_author(d) ==
  Result("confirm", d,
         Reply("preview", format_post(update_data(d, "author", <<>>))),
         <<>>, NoFault)

media_done(d) ==
  Result("confirm", d, Reply("preview", format_post(d)), <<>>, NoFault)

\* mutant: restart sets the state without clearing the dictionary
restart_keeps_data(d) ==
  Result("product", d, Reply("ask_product_again", <<>>), <<>>, NoFault)

restart(d) ==
  Result("product", EmptyData, Reply("ask_product_again", <<>>), <<>>, NoFault)

SendMessage(post) == [method |-> "send_message", payload |-> post]
SendPhoto(fid) == [method |-> "send_photo", payload |-> fid]
SendVideo(fid) == [method |-> "send_video", payload |-> fid]

\* mutant: the videos are sent before the photos
GatewayCalls_videos_first(d) ==
  LET bucket == ensure_media_bucket(d)
  IN  << SendMessage(format_post(d)) >>
      \o [i \in 1..Len(bucket.videos) |-> SendVideo(bucket.videos[i])]
      \o [i \in 1..Len(bucket.photos) |-> SendPhoto(bucket.photos[i])]

\* the calls of a send attempt, in the order the handler issues them
GatewayCalls(d) ==
  LET bucket == ensure_media_bucket(d)
  IN  << SendMessage(format_post(d)) >>
      \o [i \in 1..Len(bucket.photos) |-> SendPhoto(bucket.photos[i])]
      \o [i \in 1..Len(bucket.videos) |-> SendVideo(bucket.videos[i])]

\* mutant: the session is cleared although no destination is configured
send_clears_without_target(d, target, fault) ==
  IF ~Truthy(target)
  THEN Result(NoState, EmptyData, Reply("no_target", <<>>), <<>>, NoFault)
  ELSE LET calls == GatewayCalls(d)
       IN  IF fault.at = 0 \/ fault.at > Len(calls)
           THEN Result(NoState, EmptyData, Reply("sent", <<>>), calls, NoFault)
           ELSE IF fault.kind = "bad_request"
           THEN Result("confirm", d, Reply("send_error", <<fault.at>>),
                       SubSeq(calls, 1, fault.at - 1), fault)
           ELSE Result("confirm", d, None, SubSeq(calls, 1, fault.at - 1),
                       fault)

\* mutant: the session is cleared after a fault as after a success
send_clears_after_fault(d, target, fault) ==
  IF ~Truthy(target)
  THEN Result("confirm", d, Reply("no_target", <<>>), <<>>, NoFault)
  ELSE LET calls == GatewayCalls(d)
       IN  IF fault.at = 0 \/ fault.at > Len(calls)
           THEN Result(NoState, EmptyData, Reply("sent", <<>>), calls, NoFault)
           ELSE IF fault.kind = "bad_request"
           THEN Result(NoState, EmptyData, Reply("send_error", <<fault.at>>),
                       SubSeq(calls, 1, fault.at - 1), fault)
           ELSE Result("confirm", d, None, SubSeq(calls, 1, fault.at - 1),
                       fault)

\* mutant: a complete attempt leaves out the document
send_skips_document(d, target, fault) ==
  IF ~Truthy(target)
  THEN Result("confirm", d, Reply("no_target", <<>>), <<>>, NoFault)
  ELSE LET calls == GatewayCalls(d)
       IN  IF fault.at = 0 \/ fault.at > Len(calls)
           THEN Result(NoState, EmptyData, Reply("sent", <<>>), Tail(calls),
                       NoFault)
           ELSE IF fault.kind = "bad_request"
           THEN Result("confirm", d, Reply("send_error", <<fault.at>>),
                       SubSeq(calls, 1, fault.at - 1), fault)
           ELSE Result("confirm", d, None, SubSeq(calls, 1, fault.at - 1),
                       fault)

\* fault.at = 0: every call succeeds; otherwise call number fault.at raises
\* TelegramBadRequest (kind "bad_request", caught by the handler) or another
\* exception (kind "other", which leaves the handler)
send(d, target, fault) ==
  IF ~Truthy(target)
  THEN Result("confirm", d, Reply("no_target", <<>>), <<>>, NoFault)
  ELSE LET calls == GatewayCalls(d)
       IN  IF fault.at = 0 \/ fault.at > Len(calls)
           THEN Result(NoState, EmptyData, Reply("sent", <<>>), calls, NoFault)
           ELSE IF fault.kind = "bad_request"
           THEN Result("confirm", d, Reply("send_error", <<fault.at>>),
                       SubSeq(calls, 1, fault.at - 1), fault)
           ELSE Result("confirm", d, None, SubSeq(calls, 1, fault.at - 1),
                       fault)

\* set_target: the reply and the chat id written to config.json
set_target(u, chat) ==
  IF admin_ids # {} /\ u \notin admin_ids
  THEN [reply |-> Reply("no_access", <<>>), file |-> config_file]
  ELSE IF get_target_chat_id_from_env # None
  THEN [reply |-> Reply("target_from_env", get_target_chat_id_from_env),
        file |-> config_file]
  ELSE [reply |-> Reply("target_saved", <<chat>>), file |-> Some(chat)]

(***************************************************************************)
(* The events the model delivers.                                          *)
(***************************************************************************)
ChatIds == {-100}

TitleTexts == { <<"F", "o", "o">> }
DeviceTexts == { <<"B", "a", "r">> }
VersionTexts == { <<"1", ".", "0">> }
SettingsTexts == { <<"L", "o", "w">> }
FpsTexts == { <<"3", "0", "f", "p", "s">> }
IssuesTexts ==
  { <<"cyr_n", "cyr_e", "cyr_t">>, <<" ", "CYR_N", "cyr_e", "CYR_T", "\n">>,
    <<"N", "O">>, <<"-">>, <<" ", "b", "u", "g", " ">>, <<" ">> }
ExtraTexts ==
  { <<"n", "o", "n", "e">>, <<"cyr_n", "cyr_e", "cyr_t">>, <<"N", "o">>,
    <<" ", "-", "\n">>, <<"\n", "n", "o", "n", "e", " ">> }
AuthorTexts == { <<"@", "x">> }

PhotoMsgs == { PhotoMsg(<<"A">>), PhotoMsg(<<"b", "B">>) }
VideoMsgs == { VideoMsg("C") }
MediaMsgs == PhotoMsgs \cup VideoMsgs

\* what a text phase may receive: a text, or a message without text
Msgs(texts) == {TextMsg(t) : t \in texts} \cup MediaMsgs

Products == {"winlator", "gamehub", "other"}

Callbacks ==
  {Callback(<<"product", p>>) : p \in Products}
  \cup { Callback(<<"media", "done">>), Callback(<<"confirm", "restart">>),
         Callback(<<"confirm", "send">>) }

\* events delivered where no handler may accept them
StrayEvents ==
  { Callback(<<"product", "winlator">>), Callback(<<"media", "done">>),
    Callback(<<"confirm", "restart">>), Callback(<<"confirm", "send">>),
    TextMsg(<<"F", "o", "o">>), PhotoMsg(<<"A">>), VideoMsg("C") }

FaultKinds == {"bad_request", "other"}

Faults(d) ==
  {NoFault} \cup
  [kind : FaultKinds, at : 1..Len(GatewayCalls(d))]

(***************************************************************************)
(* State machine.                                                          *)
(***************************************************************************)
IsMedia(ev) == ev.kind = "message" /\ (ev.photo # <<>> \/ ev.video # None)

NoneArrived == [photos |-> <<>>, videos |-> <<>>]

\* history of the messages with a photo and of the messages with a video
\* that arrived in the media phase of the current form, each in arrival order
NextArrived(u, ev, r) ==
  IF r.state \notin {"media", "confirm"} THEN NoneArrived
  ELSE IF fsm_state[u] = "media" /\ ev.kind = "message" /\ ev.photo # <<>>
  THEN [arrived[u] EXCEPT !.photos = Append(@, ev)]
  ELSE IF fsm_state[u] = "media" /\ ev.kind = "message" /\ ev.video # None
  THEN [arrived[u] EXCEPT !.videos = Append(@, ev)]
  ELSE IF fsm_state[u] \notin {"media", "confirm"} THEN NoneArrived
  ELSE arrived[u]

\* The scenario of the specification's section 8: start, a category, title
\* "Foo", device "Bar", version "1.0", config "Low", perf "30fps", issues
\* "net" (Cyrillic), extra "none", author "@x", done, send.
Scenario ==
  << CommandMsg("start"), Callback(<<"product", "winlator">>),
     TextMsg(<<"F", "o", "o">>), TextMsg(<<"B", "a", "r">>),
     TextMsg(<<"1", ".", "0">>), TextMsg(<<"L", "o", "w">>),
     TextMsg(<<"3", "0", "f", "p", "s">>),
     TextMsg(<<"cyr_n", "cyr_e", "cyr_t">>), TextMsg(<<"n", "o", "n", "e">>),
     TextMsg(<<"@", "x">>), Callback(<<"media", "done">>),
     Callback(<<"confirm", "send">>) >>

\* how many events of the scenario the events of user u have followed
NextScen(u, ev) ==
  IF scen[u] < Len(Scenario) /\ ev = Scenario[scen[u] + 1] THEN scen[u] + 1
  ELSE IF ev = Scenario[1] THEN 1
  ELSE 0

\* number of messages with an attachment that the text handlers took in the
\* current form
NextStrays(u, ev, name, r) ==
  IF r.state \in {NoState, "product"} THEN 0
  ELSE IF name \in TextHandlers /\ IsMedia(ev) THEN strays[u] + 1
  ELSE strays[u]

\* history of the confirmation phase of u: the preview the done button
\* showed, the media lists at that moment, and whether a send attempt made
\* since then met a fault; it is kept until the next event after the send
\* that closes the form
NextShown(u, name, r) ==
  IF name = "media_done"
  THEN Some([photos |-> ensure_media_bucket(r.data).photos,
             videos |-> ensure_media_bucket(r.data).videos,
             post |-> r.reply[1].arg,
             failed |-> FALSE])
  ELSE IF shown[u] = None \/ fsm_state[u] # "confirm" THEN None
  ELSE IF name = "send"
  THEN Some([shown[u][1] EXCEPT !.failed = @ \/ r.fault.at > 0])
  ELSE IF r.state = "confirm" THEN shown[u]
  ELSE None

MediaCount(u) ==
  LET bucket == ensure_media_bucket(fsm_data[u])
  IN  Len(bucket.photos) + Len(bucket.videos)

\* mutant: the storage keeps one record for all users
Handle_shared(u, ev, name, r) ==
  /\ Route(fsm_state[u], ev) = name
  /\ (name \in TextHandlers /\ IsMedia(ev))
       => strays[u] + MediaCount(u) < MaxMedia
  /\ strays' = [strays EXCEPT ![u] = NextStrays(u, ev, name, r)]
  /\ fsm_state' = [v \in Users |-> r.state]
  /\ fsm_data' = [v \in Users |-> r.data]
  /\ out' = [ev |-> ev, reply |-> r.reply, sends |-> r.sends,
             fault |-> r.fault,
             target |-> IF name = "send" THEN load_config ELSE None,
             user |-> u, handler |-> name, from |-> fsm_state[u],
             retry |-> name = "send" /\ shown[u] # None /\ shown[u][1].failed]
  /\ shown' = [shown EXCEPT ![u] = NextShown(u, name, r)]
  /\ scen' = [scen EXCEPT ![u] = NextScen(u, ev)]
  /\ arrived' = [arrived EXCEPT ![u] = NextArrived(u, ev, r)]
  /\ UNCHANGED <<env_target, config_file, admin_ids, rec, docs, tasks>>

Handle(u, ev, name, r) ==
  /\ Route(fsm_state[u], ev) = name
  /\ (name \in TextHandlers /\ IsMedia(ev))
       => strays[u] + MediaCount(u) < MaxMedia
  /\ strays' = [strays EXCEPT ![u] = NextStrays(u, ev, name, r)]
  /\ fsm_state' = [fsm_state EXCEPT ![u] = r.state]
  /\ fsm_data' = [fsm_data EXCEPT ![u] = r.data]
  /\ out' = [ev |-> ev, reply |-> r.reply, sends |-> r.sends,
             fault |-> r.fault,
             target |-> IF name = "send" THEN load_config ELSE None,
             user |-> u, handler |-> name, from |-> fsm_state[u],
             retry |-> name = "send" /\ shown[u] # None /\ shown[u][1].failed]
  /\ shown' = [shown EXCEPT ![u] = NextShown(u, name, r)]
  /\ scen' = [scen EXCEPT ![u] = NextScen(u, ev)]
  /\ arrived' = [arrived EXCEPT ![u] = NextArrived(u, ev, r)]
  /\ UNCHANGED <<env_target, config_file, admin_ids, rec, docs, tasks>>

\* mutant: an event without handler is answered
Unchanged_replies(u) ==
  Result(fsm_state[u], fsm_data[u], Reply("unknown_input", <<>>), <<>>, NoFault)

Unchanged(u) == Result(fsm_state[u], fsm_data[u], None, <<>>, NoFault)

Start(u) ==
  Handle(u, CommandMsg("start"), "start", start(fsm_data[u]))

CancelCmd(u) ==
  Handle(u, CommandMsg("cancel"), "cancel_cmd", cancel_cmd(fsm_data[u]))

CancelCb(u) ==
  Handle(u, Callback(<<"cancel">>), "cancel_cb", cancel_cb(fsm_data[u]))

SetTarget(u) ==
  \E chat \in ChatIds :
    LET r == set_target(u, chat)
    IN  /\ Route(fsm_state[u], CommandMsg("set_target")) = "set_target"
        /\ config_file' = r.file
        /\ UNCHANGED <<fsm_state, fsm_data, env_target, admin_ids, out, arrived,
                       strays, scen, shown, rec, docs, tasks>>

ProductPick(u) ==
  \E ev \in Callbacks :
    Handle(u, ev, "product_pick", product_pick(fsm_data[u], ev))

GameTitle(u) ==
  \E ev \in Msgs(TitleTexts) :
    Handle(u, ev, "game_title", game_title(fsm_data[u], ev))

Device(u) ==
  \E ev \in Msgs(DeviceTexts) :
    Handle(u, ev, "device", device(fsm_data[u], ev))

AppVersion(u) ==
  \E ev \in Msgs(VersionTexts) :
    Handle(u, ev, "app_version", app_version(fsm_data[u], ev))

Settings(u) ==
  \E ev \in Msgs(SettingsTexts) :
    Handle(u, ev, "settings", settings(fsm_data[u], ev))

Fps(u) ==
  \E ev \in Msgs(FpsTexts) :
    Handle(u, ev, "fps", fps(fsm_data[u], ev))

Issues(u) ==
  \E ev \in Msgs(IssuesTexts) :
    Handle(u, ev, "issues", issues(fsm_data[u], ev))

Extra(u) ==
  \E ev \in Msgs(ExtraTexts) :
    Handle(u, ev, "extra", extra(fsm_data[u], ev))

Author(u) ==
  \E ev \in Msgs(AuthorTexts) :
    Handle(u, ev, "author", author(fsm_data[u], ev))

MediaPhoto(u) ==
  /\ strays[u] + MediaCount(u) < MaxMedia
  /\ \E ev \in PhotoMsgs :
       Handle(u, ev, "media_photo", media_photo(fsm_data[u], ev))

MediaVideo(u) ==
  /\ strays[u] + MediaCount(u) < MaxMedia
  /\ \E ev \in VideoMsgs :
       Handle(u, ev, "media_video", media_video(fsm_data[u], ev))

MediaDone(u) ==
  Handle(u, Callback(<<"media", "done">>), "media_done",
         media_done(fsm_data[u]))

Restart(u) ==
  Handle(u, Callback(<<"confirm", "restart">>), "restart",
         restart(fsm_data[u]))

Send(u) ==
  \E fault \in Faults(fsm_data[u]) :
    Handle(u, Callback(<<"confirm", "send">>), "send",
           send(fsm_data[u], load_config, fault))

\* an event no handler accepts is dropped
Unhandled(u) ==
  \E ev \in StrayEvents : Handle(u, ev, "unhandled", Unchanged(u))

NoOut ==
  [ev |-> Callback(<<>>), reply |-> None, sends |-> <<>>, fault |-> NoFault,
   target |-> None, user |-> "", handler |-> "", from |-> NoState,
   retry |-> FALSE]

Init ==
  /\ fsm_state = [u \in Users |-> NoState]
  /\ fsm_data = [u \in Users |-> EmptyData]
  /\ env_target \in {None, Some(0), Some(-100)}
  /\ config_file = None
  /\ admin_ids = {"u2"}
  /\ out = NoOut
  /\ arrived = [u \in Users |-> NoneArrived]
  /\ strays = [u \in Users |-> 0]
  /\ scen = [u \in Users |-> 0]
  /\ shown = [u \in Users |-> None]
  /\ rec = EmptyData
  /\ docs = <<>>
  /\ tasks = <<>>

Next ==
  \/ \E u \in Users : SetTarget(u)
  \/ \E u \in ActiveUsers :
       \/ Start(u)
       \/ CancelCmd(u)
       \/ CancelCb(u)
       \/ ProductPick(u)
       \/ GameTitle(u)
       \/ Device(u)
       \/ AppVersion(u)
       \/ Settings(u)
       \/ Fps(u)
       \/ Issues(u)
       \/ Extra(u)
       \/ Author(u)
       \/ MediaPhoto(u)
       \/ MediaVideo(u)
       \/ MediaDone(u)
       \/ Restart(u)
       \/ Send(u)
       \/ Unhandled(u)

Spec == Init /\ [][Next]_vars

(***************************************************************************)
(* The renderer alone: _format_post applied to a record rec, once for the  *)
(* preview of media_done and once more for a send.                         *)
(***************************************************************************)
RenderProducts == {None, Some("winlator"), Some("gamehub"), Some("other")}
RenderTitles == {None, Some(<<>>), Some(<<" ", "F", "o", "o">>)}
RenderIssues == {None, Some(<<>>), Some(<<" ">>), Some(<<"b", "u", "g">>)}
RenderAuthors == {None, Some(<<>>), Some(<<" ">>), Some(<<" ", "@", "x", "\n">>)}

RenderRecords ==
  { [product |-> p, game_title |-> t, device |-> Some(<<"B", "a", "r">>),
     app_version |-> Some(<<"1", ".", "0">>), settings |-> Some(<<>>),
     fps |-> None, issues |-> i, extra |-> e, author |-> a,
     media_bucket |-> None] :
      p \in RenderProducts, t \in RenderTitles, i \in RenderIssues,
      e \in RenderIssues, a \in RenderAuthors }

InitRender ==
  /\ rec \in RenderRecords
  /\ docs = <<>>
  /\ tasks = <<>>
  /\ fsm_state = [u \in Users |-> NoState]
  /\ fsm_data = [u \in Users |-> EmptyData]
  /\ env_target = None
  /\ config_file = None
  /\ admin_ids = {"u2"}
  /\ out = NoOut
  /\ arrived = [u \in Users |-> NoneArrived]
  /\ strays = [u \in Users |-> 0]
  /\ scen = [u \in Users |-> 0]
  /\ shown = [u \in Users |-> None]

\* text = _format_post(data) of media_done
Render ==
  /\ docs = <<>>
  /\ docs' = <<format_post(rec)>>
  /\ UNCHANGED <<fsm_state, fsm_data, env_target, config_file, admin_ids, out,
                 arrived, strays, scen, shown, rec, tasks>>

\* text = _format_post(data) of send, on the same data
RenderAgain ==
  /\ Len(docs) = 1
  /\ docs' = Append(docs, format_post(rec))
  /\ UNCHANGED <<fsm_state, fsm_data, env_target, config_file, admin_ids, out,
                 arrived, strays, scen, shown, rec, tasks>>

NextRender == Render \/ RenderAgain

SpecRender == InitRender /\ [][NextRender]_vars

(***************************************************************************)
(* Sessions of two users.  The events of both users are delivered in any   *)
(* order; each user follows the form with one value per question.          *)
(***************************************************************************)
UsersEvents ==
  { Scenario[i] : i \in 1..Len(Scenario) }
  \cup { Callback(<<"cancel">>), Callback(<<"confirm", "restart">>),
         PhotoMsg(<<"A">>), VideoMsg("C") }

InitUsers ==
  /\ fsm_state = [u \in Users |-> NoState]
  /\ fsm_data = [u \in Users |-> EmptyData]
  /\ env_target = Some(-100)
  /\ config_file = None
  /\ admin_ids = {"u2"}
  /\ out = NoOut
  /\ arrived = [u \in Users |-> NoneArrived]
  /\ strays = [u \in Users |-> 0]
  /\ scen = [u \in Users |-> 0]
  /\ shown = [u \in Users |-> None]
  /\ rec = EmptyData
  /\ docs = <<>>
  /\ tasks = <<>>

NextUsers ==
  /\ \E u \in Users :
       \/ Start(u)
       \/ CancelCb(u)
       \/ ProductPick(u)
       \/ GameTitle(u)
       \/ Device(u)
       \/ AppVersion(u)
       \/ Settings(u)
       \/ Fps(u)
       \/ Issues(u)
       \/ Extra(u)
       \/ Author(u)
       \/ MediaPhoto(u)
       \/ MediaVideo(u)
       \/ MediaDone(u)
       \/ Restart(u)
       \/ Send(u)
  /\ out'.ev \in UsersEvents
  /\ out'.handler \in TextHandlers => ~IsMedia(out'.ev)
  /\ out'.fault.at = 0

SpecUsers == InitUsers /\ [][NextUsers]_vars

(***************************************************************************)
(* Handlers of one user running as concurrent tasks.  start_polling        *)
(* handles every update in a task of its own and the dispatcher is built   *)
(* without event isolation, so the handlers of one user interleave at      *)
(* their awaits.  The form is in the author phase; the author's answer and *)
(* three attachments arrive, each once.                                    *)
(***************************************************************************)
ConcUser == "u1"

ConcEvents ==
  << TextMsg(<<"@", "x">>), PhotoMsg(<<"A">>), PhotoMsg(<<"b", "B">>),
     VideoMsg("C") >>

NewTask == [bucket |-> MediaBucket(<<>>, <<>>), handler |-> "", pc |-> "new"]

\* the dictionary of a form that reached the author question
AuthorPhaseData ==
  LET d1 == product_pick(start(EmptyData).data, Scenario[2]).data
      d2 == game_title(d1, Scenario[3]).data
      d3 == device(d2, Scenario[4]).data
      d4 == app_version(d3, Scenario[5]).data
      d5 == settings(d4, Scenario[6]).data
      d6 == fps(d5, Scenario[7]).data
      d7 == issues(d6, Scenario[8]).data
  IN  extra(d7, Scenario[9]).data

InitConc ==
  /\ fsm_state = [u \in Users |-> IF u = ConcUser THEN "author" ELSE NoState]
  /\ fsm_data = [u \in Users |-> IF u = ConcUser THEN AuthorPhaseData
                                                 ELSE EmptyData]
  /\ tasks = <<NewTask, NewTask, NewTask, NewTask>>
  /\ env_target = None
  /\ config_file = None
  /\ admin_ids = {"u2"}
  /\ out = NoOut
  /\ arrived = [u \in Users |-> NoneArrived]
  /\ strays = [u \in Users |-> 0]
  /\ scen = [u \in Users |-> 0]
  /\ shown = [u \in Users |-> None]
  /\ rec = EmptyData
  /\ docs = <<>>

ConcFrame ==
  UNCHANGED <<env_target, config_file, admin_ids, out, arrived, strays, scen,
              shown, rec, docs>>

\* the pc a task starts at in its handler
FirstPc(name) ==
  IF name = "author" THEN "update_author"
  ELSE IF name \in {"media_photo", "media_video"} THEN "read_bucket"
  ELSE "done"

\* the update arrives: the filters pick the handler by the stored state
Arrive(i) ==
  LET name == Route(fsm_state[ConcUser], ConcEvents[i])
  IN  /\ tasks[i].pc = "new"
      /\ tasks' = [tasks EXCEPT ![i].handler = name, ![i].pc = FirstPc(name)]
      /\ UNCHANGED <<fsm_state, fsm_data>>
      /\ ConcFrame

\* await state.update_data(author=message.text or "")
AuthorUpdateData(i) ==
  /\ tasks[i].pc = "update_author"
  /\ fsm_data' = [fsm_data EXCEPT
                    ![ConcUser] = update_data(@, "author",
                                              OrEmpty(ConcEvents[i].text))]
  /\ tasks' = [tasks EXCEPT ![i].pc = "set_state"]
  /\ UNCHANGED fsm_state
  /\ ConcFrame

\* await state.set_state(Form.media)
AuthorSetState(i) ==
  /\ tasks[i].pc = "set_state"
  /\ fsm_state' = [fsm_state EXCEPT ![ConcUser] = "media"]
  /\ tasks' = [tasks EXCEPT ![i].pc = "init_bucket"]
  /\ UNCHANGED fsm_data
  /\ ConcFrame

\* await state.update_data(media_bucket={"photos": [], "videos": []})
AuthorInitBucket(i) ==
  /\ tasks[i].pc = "init_bucket"
  /\ fsm_data' = [fsm_data EXCEPT
                    ![ConcUser] = update_data(@, "media_bucket",
                                              MediaBucket(<<>>, <<>>))]
  /\ tasks' = [tasks EXCEPT ![i].pc = "answer"]
  /\ UNCHANGED fsm_state
  /\ ConcFrame

\* await message.answer(...)
AuthorAnswer(i) ==
  /\ tasks[i].pc = "answer"
  /\ tasks' = [tasks EXCEPT ![i].pc = "done"]
  /\ UNCHANGED <<fsm_state, fsm_data>>
  /\ ConcFrame

\* bucket = await _ensure_media_bucket(state)
MediaRead(i) ==
  /\ tasks[i].pc = "read_bucket"
  /\ tasks' = [tasks EXCEPT
                 ![i].bucket = ensure_media_bucket(fsm_data[ConcUser]),
                 ![i].pc = "write_bucket"]
  /\ UNCHANGED <<fsm_state, fsm_data>>
  /\ ConcFrame

\* the append to the local bucket and await state.update_data(media_bucket=...)
MediaWrite(i) ==
  LET t == tasks[i]
      ev == ConcEvents[i]
      bucket ==
        IF t.handler = "media_photo"
        THEN MediaBucket(Append(t.bucket.photos, BestPhoto(ev)),
                         t.bucket.videos)
        ELSE MediaBucket(t.bucket.photos, Append(t.bucket.videos, ev.video[1]))
  IN  /\ t.pc = "write_bucket"
      /\ fsm_data' = [fsm_data EXCEPT
                        ![ConcUser] = update_data(@, "media_bucket", bucket)]
      /\ tasks' = [tasks EXCEPT ![i].pc = "done"]
      /\ UNCHANGED fsm_state
      /\ ConcFrame

NextConc ==
  \E i \in 1..Len(ConcEvents) :
    \/ Arrive(i)
    \/ AuthorUpdateData(i)
    \/ AuthorSetState(i)
    \/ AuthorInitBucket(i)
    \/ AuthorAnswer(i)
    \/ MediaRead(i)
    \/ MediaWrite(i)

SpecConc == InitConc /\ [][NextConc]_vars

(***************************************************************************)
(* Vocabulary of the claims: the phases and the kinds of event of the      *)
(* specification's transition table.  out describes the event of the       *)
(* wizard handled last: out.from is the phase it arrived in, out.target    *)
(* the destination a send read, and the session is as its handler left it. *)
(***************************************************************************)
IsStart(ev) == ev = CommandMsg("start")
IsCancel(ev) == ev = CommandMsg("cancel") \/ ev = Callback(<<"cancel">>)
IsImage(ev) == ev.kind = "message" /\ ev.photo # <<>>
IsClip(ev) == ev.kind = "message" /\ ev.video # None
IsText(ev) ==
  /\ ev.kind = "message" /\ ev.text # None
  /\ ev.text[1] = <<>> \/ ev.text[1][1] # "/"
IsChoice(ev) == ev.kind = "callback" /\ Len(ev.data) = 2 /\ ev.data[1] = "product"
IsValidChoice(ev) == IsChoice(ev) /\ ev.data[2] \in {"winlator", "gamehub"}
IsDone(ev) == ev = Callback(<<"media", "done">>)
IsRestart(ev) == ev = Callback(<<"confirm", "restart">>)
IsSend(ev) == ev = Callback(<<"confirm", "send">>)

TextPhases ==
  {"game_title", "device", "app_version", "settings", "fps", "issues",
   "extra", "author"}

\* the phase after a phase of the step list
NextPhase(ph) == Form[(CHOOSE i \in 1..Len(Form) - 1 : Form[i] = ph) + 1]

\* the rows of the transition table
TableRow(from, ev, to) ==
  \/ IsCancel(ev) /\ to = NoState
  \/ IsStart(ev) /\ from = NoState /\ to = "product"
  \/ IsValidChoice(ev) /\ from = "product" /\ to = "game_title"
  \/ IsText(ev) /\ from \in TextPhases /\ to = NextPhase(from)
  \/ (IsImage(ev) \/ IsClip(ev)) /\ from = "media" /\ to = "media"
  \/ IsDone(ev) /\ from = "media" /\ to = "confirm"
  \/ IsRestart(ev) /\ from = "confirm" /\ to = "product"
  \/ IsSend(ev) /\ from = "confirm" /\ to \in {NoState, "confirm"}

Photos(u) == ensure_media_bucket(fsm_data[u]).photos
Videos(u) == ensure_media_bucket(fsm_data[u]).videos

\* the session of u holds no field and no attachment
Cleared(u) ==
  /\ \A k \in Keys : fsm_data[u][k] = None
  /\ Photos(u) = <<>> /\ Videos(u) = <<>>

\* the step handles an event of user u that arrived in phase ph
Handles(u, ph) == out' # out /\ out'.user = u /\ out'.from = ph

\* C1: the phase of a session changes only along a row of the transition
\* table: whenever an event changes the phase, some row lists the old phase,
\* the event and the new phase.
C1_PhaseFollowsTable ==
  [][\A u \in Users :
       fsm_state'[u] # fsm_state[u]
         => TableRow(fsm_state[u], out'.ev, fsm_state'[u])]_vars

\* C2: after a cancel event (command or button), whatever the phase it
\* arrived in, the session is in phase NONE with no stored field and empty
\* images and clips lists.
C2_CancelClears ==
  \A u \in Users :
    (out.user = u /\ IsCancel(out.ev))
      => fsm_state[u] = NoState /\ Cleared(u)

C2_Witness ==
  /\ out.user = "u1" /\ IsCancel(out.ev) /\ out.from = "confirm"
  /\ fsm_state["u1"] = NoState

\* C3: send in CONFIRM with no destination configured makes no gateway
\* send, replies with the missing-destination instruction and leaves the
\* phase, every field and both media lists as they were.
C3_MissingDestination ==
  [][\A u \in Users :
       (Handles(u, "confirm") /\ IsSend(out'.ev) /\ ~Truthy(load_config))
         => /\ out'.sends = <<>>
            /\ out'.reply = Reply("no_target", <<>>)
            /\ fsm_state'[u] = "confirm"
            /\ fsm_data'[u] = fsm_data[u]]_vars

C3_Witness ==
  /\ out.user = "u1" /\ IsSend(out.ev) /\ out.from = "confirm"
  /\ out.reply = Reply("no_target", <<>>)
  /\ Photos("u1") # <<>> /\ Videos("u1") # <<>>

\* the sends of an attempt as the claims list them: the document, then the
\* images, then the clips
ExpectedSends(u) ==
  << SendMessage(format_post(fsm_data[u])) >>
  \o [i \in 1..Len(Photos(u)) |-> SendPhoto(Photos(u)[i])]
  \o [i \in 1..Len(Videos(u)) |-> SendVideo(Videos(u)[i])]

C5_DeliveryOrder ==
  [][\A u \in Users :
       (Handles(u, "confirm") /\ IsSend(out'.ev))
         => /\ (Truthy(load_config) /\ out'.fault.at = 0)
                 => /\ out'.sends = ExpectedSends(u)
                    /\ Len(out'.sends) = 1 + Len(Photos(u)) + Len(Videos(u))
                    /\ fsm_state'[u] = NoState
                    /\ fsm_data'[u] = EmptyData
            /\ (fsm_state'[u] # "confirm" \/ fsm_data'[u] # fsm_data[u])
                 => out'.sends = ExpectedSends(u)]_vars

C5_Witness ==
  /\ out.user = "u1" /\ IsSend(out.ev) /\ out.from = "confirm"
  /\ fsm_state["u1"] = NoState
  /\ Len(out.sends) = 3
  /\ out.sends[2].method = "send_photo" /\ out.sends[3].method = "send_video"

\* the reference a handler keeps of an attachment: the last, largest size of
\* a photo, or the video
RefOf(ev) == IF IsImage(ev) THEN ev.photo[Len(ev.photo)] ELSE ev.video[1]

Refs(evs) == [i \in 1..Len(evs) |-> RefOf(evs[i])]

\* C6: in the MEDIA phase the images list is the subsequence of the image
\* references that arrived, in arrival order, and the clips list is the
\* subsequence of the clip references, in arrival order: nothing is dropped,
\* reordered or deduplicated, and an image or clip leaves the phase MEDIA.
C6_MediaAccumulates ==
  \A u \in Users :
    /\ fsm_state[u] = "media"
         => /\ Photos(u) = Refs(arrived[u].photos)
            /\ Videos(u) = Refs(arrived[u].videos)
    /\ (out.user = u /\ out.from = "media" /\ (IsImage(out.ev) \/ IsClip(out.ev)))
         => fsm_state[u] = "media"

\* the same image twice: both references are kept, in order
C6_Witness ==
  /\ fsm_state["u1"] = "media"
  /\ arrived["u1"].photos = <<PhotoMsg(<<"b", "B">>), PhotoMsg(<<"b", "B">>)>>
  /\ Photos("u1") = <<"B", "B">>

LinesOf(doc, label) == {i \in 1..Len(doc) : doc[i][1] = label}

\* the step list of the scenario was followed to its end with a destination
\* configured and no fault
ScenarioDelivered(u) ==
  /\ scen[u] = Len(Scenario) /\ out.user = u /\ IsSend(out.ev)
  /\ Truthy(out.target) /\ out.fault.at = 0

\* C7 as stated: in the scenario with extra "none" the gateway receives one
\* document send, without issues line and without extra line and with the
\* author line, and no attachment send, and the session ends in NONE.
C7_ScenarioAsStated ==
  \A u \in Users :
    ScenarioDelivered(u)
      => /\ Len(out.sends) = 1
         /\ out.sends[1].method = "send_message"
         /\ LinesOf(out.sends[1].payload, "issues") = {}
         /\ LinesOf(out.sends[1].payload, "extra") = {}
         /\ LinesOf(out.sends[1].payload, "author") # {}
         /\ fsm_state[u] = NoState

\* C7 amended: in the scenario the gateway receives one document send,
\* without issues line, with the extra line "none" ("none" is not a negative
\* token) and with the author line "@x", and no attachment send, and the
\* session ends in NONE.
C7_ScenarioDelivers ==
  \A u \in Users :
    ScenarioDelivered(u)
      => /\ Len(out.sends) = 1
         /\ out.sends[1].method = "send_message"
         /\ LinesOf(out.sends[1].payload, "issues") = {}
         /\ \E i \in LinesOf(out.sends[1].payload, "extra") :
              out.sends[1].payload[i] = <<"extra", <<"n", "o", "n", "e">> >>
         /\ \E i \in LinesOf(out.sends[1].payload, "author") :
              /\ out.sends[1].payload[i] = <<"author", <<"@", "x">> >>
              /\ out.sends[1].payload[i - 1] = BlankLine
         /\ fsm_state[u] = NoState
         /\ Cleared(u)

C7_Witness == ScenarioDelivered("u1") /\ fsm_state["u1"] = NoState

\* txt is t without its leading and trailing whitespace
IsTrimOf(txt, t) ==
  \E i \in 0..Len(t) : \E j \in i..Len(t) :
    /\ txt = SubSeq(t, i + 1, j)
    /\ \A n \in 1..i : t[n] \in {" ", "\n"}
    /\ \A n \in (j + 1)..Len(t) : t[n] \in {" ", "\n"}
    /\ txt # <<>> => txt[1] \notin {" ", "\n"} /\ txt[Len(txt)] \notin {" ", "\n"}

Trims(t) ==
  {txt \in {SubSeq(t, i, j) : i \in 1..(Len(t) + 1), j \in 0..Len(t)} :
     IsTrimOf(txt, t)}

\* a and b are the same text up to letter case
SameLetters(a, b) ==
  /\ Len(a) = Len(b)
  /\ \A i \in 1..Len(a) :
       \/ a[i] = b[i]
       \/ <<a[i], b[i]>> \in LowerPairs
       \/ <<b[i], a[i]>> \in LowerPairs

\* the negative tokens: Cyrillic "net", "no" and "-"
ClaimTokens == { <<"cyr_n", "cyr_e", "cyr_t">>, <<"n", "o">>, <<"-">> }

IsNegative(txt) == \E tok \in ClaimTokens : SameLetters(txt, tok)

\* C8: after a text answered in the issues or extra phase: when the trimmed
\* text is a negative token in any letter case, the field holds the empty
\* string and the rendered document has no line for it; for any other
\* non-empty trimmed text the field holds the trimmed text and the rendered
\* document has the line with it.
C8_NegativeTokens ==
  \A u \in Users : \A key \in {"issues", "extra"} :
    (out.user = u /\ out.from = key /\ IsText(out.ev))
      => \A txt \in Trims(out.ev.text[1]) :
           /\ IsNegative(txt)
                => /\ fsm_data[u][key] = Some(<<>>)
                   /\ LinesOf(format_post(fsm_data[u]), key) = {}
           /\ (~IsNegative(txt) /\ txt # <<>>)
                => /\ fsm_data[u][key] = Some(txt)
                   /\ \E i \in LinesOf(format_post(fsm_data[u]), key) :
                        format_post(fsm_data[u])[i] = <<key, txt>>

\* issues " bug " is kept trimmed; extra "-" between whitespace is dropped
C8_Witness ==
  /\ out.user = "u1" /\ out.from = "extra"
  /\ out.ev = TextMsg(<<" ", "-", "\n">>)
  /\ fsm_data["u1"]["extra"] = Some(<<>>)
  /\ fsm_data["u1"]["issues"] = Some(<<"b", "u", "g">>)

\* C9: restart chosen in CONFIRM leaves the session in CATEGORY with no
\* stored field, the category included, and empty images and clips lists.
C9_RestartClears ==
  \A u \in Users :
    (out.user = u /\ IsRestart(out.ev) /\ out.from = "confirm")
      => fsm_state[u] = "product" /\ Cleared(u)

C9_Witness ==
  /\ out.user = "u1" /\ IsRestart(out.ev) /\ out.from = "confirm"
  /\ fsm_state["u1"] = "product"

\* C10: in a text-only phase an image or a clip is rejected without state
\* change: the phase does not advance and no field is written.
C10_WrongKindRejected ==
  [][\A u \in Users : \A ph \in TextPhases :
       (Handles(u, ph) /\ (IsImage(out'.ev) \/ IsClip(out'.ev)))
         => fsm_state'[u] = fsm_state[u] /\ fsm_data'[u] = fsm_data[u]]_vars

\* C11: in CATEGORY a choice whose value is not one of the two categories
\* (winlator, gamehub) is rejected: the phase stays CATEGORY, no category is
\* stored and no prompt is sent.
C11_InvalidChoiceRejected ==
  [][\A u \in Users :
       (Handles(u, "product") /\ IsChoice(out'.ev) /\ ~IsValidChoice(out'.ev))
         => /\ fsm_state'[u] = "product"
            /\ fsm_data'[u]["product"] = None
            /\ out'.reply = None]_vars

PhotosOf(d) == ensure_media_bucket(d).photos
VideosOf(d) == ensure_media_bucket(d).videos

\* the event of the step empties the session: cancel, start, restart in
\* CONFIRM, or a send in CONFIRM that delivered everything
Clears(u) ==
  \/ IsCancel(out'.ev)
  \/ IsStart(out'.ev)
  \/ IsRestart(out'.ev) /\ out'.from = "confirm"
  \/ /\ IsSend(out'.ev) /\ out'.from = "confirm"
     /\ Truthy(load_config) /\ out'.fault.at = 0

\* C13: the images and clips lists change only by an image or clip handled
\* in MEDIA, which appends its reference at the end of its list and leaves
\* the other list, or by cancel, start, restart and successful delivery,
\* which empty both; every other event leaves both lists as they were.
C13_MediaFrame ==
  [][\A u \in Users :
       \/ /\ PhotosOf(fsm_data'[u]) = PhotosOf(fsm_data[u])
          /\ VideosOf(fsm_data'[u]) = VideosOf(fsm_data[u])
       \/ /\ out'.user = u /\ out'.from = "media" /\ IsImage(out'.ev)
          /\ PhotosOf(fsm_data'[u])
               = Append(PhotosOf(fsm_data[u]), RefOf(out'.ev))
          /\ VideosOf(fsm_data'[u]) = VideosOf(fsm_data[u])
       \/ /\ out'.user = u /\ out'.from = "media" /\ IsClip(out'.ev)
          /\ VideosOf(fsm_data'[u])
               = Append(VideosOf(fsm_data[u]), RefOf(out'.ev))
          /\ PhotosOf(fsm_data'[u]) = PhotosOf(fsm_data[u])
       \/ /\ out'.user = u /\ Clears(u)
          /\ PhotosOf(fsm_data'[u]) = <<>>
          /\ VideosOf(fsm_data'[u]) = <<>>]_vars

\* a clip arrived after an image: the clip was appended, the image kept
C13_Witness ==
  /\ out.user = "u1" /\ out.from = "media" /\ IsClip(out.ev)
  /\ Photos("u1") = <<"A">> /\ Videos("u1") = <<"C">>

\* C14: in MEDIA a plain text (no command) is ignored: the phase stays
\* MEDIA, the images and clips and every field are unchanged and no reply is
\* sent.
C14_TextInMediaIgnored ==
  [][\A u \in Users :
       (Handles(u, "media") /\ IsText(out'.ev))
         => /\ fsm_state'[u] = "media"
            /\ fsm_data'[u] = fsm_data[u]
            /\ out'.reply = None
            /\ out'.sends = <<>>]_vars

C14_Witness ==
  /\ out.user = "u1" /\ out.from = "media" /\ IsText(out.ev)
  /\ fsm_state["u1"] = "media"
  /\ Photos("u1") # <<>>

\* C16: a start signal in any phase leaves the session in CATEGORY with no
\* stored field and empty media lists, as a start from NONE does.
C16_StartSupersedes ==
  \A u \in Users :
    (out.user = u /\ IsStart(out.ev))
      => /\ fsm_state[u] = "product"
         /\ Cleared(u)
         /\ fsm_data[u] = EmptyData

C16_Witness ==
  /\ out.user = "u1" /\ IsStart(out.ev) /\ out.from = "confirm"
  /\ fsm_state["u1"] = "product"

\* the field each phase of the step list writes
FieldOfPhase ==
  << "product", "game_title", "device", "app_version", "settings", "fps",
     "issues", "extra", "author" >>

PhaseIndex(ph) == CHOOSE i \in 1..Len(Form) : Form[i] = ph

\* key k is held by a session in phase ph: nothing in NONE, the media lists
\* in MEDIA and CONFIRM, a field in the phases after the one that asks it
KeyInPhase(k, ph) ==
  IF ph = NoState THEN FALSE
  ELSE IF k = "media_bucket" THEN ph = "media" \/ ph = "confirm"
  ELSE \E j \in 1..Len(FieldOfPhase) :
         FieldOfPhase[j] = k /\ j < PhaseIndex(ph)

\* C18: the keys stored are determined by the phase: none in NONE and in
\* CATEGORY, the category and exactly the fields of the phases passed in each
\* later phase, and the media lists exist, and can be non-empty, only in
\* MEDIA and CONFIRM.
C18_DataByPhase ==
  \A u \in Users :
    /\ \A k \in Keys : fsm_data[u][k] # None <=> KeyInPhase(k, fsm_state[u])
    /\ fsm_state[u] \notin {"media", "confirm"}
         => Photos(u) = <<>> /\ Videos(u) = <<>>

C18_Witness ==
  /\ fsm_state["u1"] = "issues"
  /\ fsm_data["u1"]["fps"] # None
  /\ fsm_data["u1"]["issues"] = None

\* the gateway sends of the form as the done button showed it: the previewed
\* document, then the images, then the clips
ShownSends(u) ==
  LET s == shown[u][1]
  IN  << SendMessage(s.post) >>
      \o [i \in 1..Len(s.photos) |-> SendPhoto(s.photos[i])]
      \o [i \in 1..Len(s.videos) |-> SendVideo(s.videos[i])]

\* C19: the document a send in CONFIRM delivers is the preview rendered at
\* done and the attachments it delivers are the lists as they were at done:
\* the sends of an attempt are the previewed document, images and clips in
\* order, all of them when no fault occurs.
C19_DeliversPreview ==
  \A u \in Users :
    (/\ out.user = u /\ IsSend(out.ev) /\ out.from = "confirm"
     /\ Truthy(out.target))
      => /\ shown[u] # None
         /\ out.sends = SubSeq(ShownSends(u), 1, Len(out.sends))
         /\ out.fault.at = 0 => out.sends = ShownSends(u)

\* a complete delivery of a form with an image and a clip, as previewed
C19_Witness ==
  /\ out.user = "u1" /\ IsSend(out.ev) /\ out.from = "confirm"
  /\ out.fault.at = 0 /\ Truthy(out.target)
  /\ Len(out.sends) = 3
  /\ shown["u1"] # None /\ out.sends[1].payload = shown["u1"][1].post

\* C20: a send attempt that follows a faulted attempt of the same CONFIRM
\* starts again from the document and goes on with every image and clip
\* from the first, whatever the earlier attempt delivered; the session
\* leaves CONFIRM for NONE by a send only when every send of that attempt
\* was made.
C20_AttemptRestarts ==
  [][\A u \in Users :
       (/\ fsm_state[u] = "confirm" /\ out'.user = u /\ IsSend(out'.ev)
        /\ out'.retry /\ Truthy(out'.target))
         => /\ out'.sends = SubSeq(ExpectedSends(u), 1, Len(out'.sends))
            /\ out'.fault.at = 0 => out'.sends = ExpectedSends(u)
            /\ out'.fault.at > 0 => Len(out'.sends) = out'.fault.at - 1
            /\ fsm_state'[u] = NoState
                 => out'.fault.at = 0 /\ out'.sends = ExpectedSends(u)]_vars

\* a second attempt after a fault delivered the document and both
\* attachments and closed the form
C20_Witness ==
  /\ out.user = "u1" /\ IsSend(out.ev) /\ out.retry
  /\ out.fault.at = 0 /\ Len(out.sends) = 3
  /\ out.sends[1].method = "send_message"
  /\ fsm_state["u1"] = NoState

\* the attachment references the stored lists of the task user hold
StoredRefs ==
  {Photos(ConcUser)[i] : i \in 1..Len(Photos(ConcUser))}
  \cup {Videos(ConcUser)[i] : i \in 1..Len(Videos(ConcUser))}

LinesAmong(doc, labels) == {i \in 1..Len(doc) : doc[i][1] \in labels}

\* the header, the empty line after it and the five core lines, each with
\* the trimmed stored value, open the document
CoreLines(doc, d) ==
  /\ Len(doc) >= 7
  /\ doc[1][1] = "header" /\ doc[2] = BlankLine
  /\ doc[3] = <<"game_title", strip(GetOrEmpty(d, "game_title"))>>
  /\ doc[4] = <<"device", strip(GetOrEmpty(d, "device"))>>
  /\ doc[5][1] \in {"app_version Winlator", "app_version GameHub"}
  /\ doc[5][2] = strip(GetOrEmpty(d, "app_version"))
  /\ doc[6] = <<"settings", strip(GetOrEmpty(d, "settings"))>>
  /\ doc[7] = <<"fps", strip(GetOrEmpty(d, "fps"))>>

\* the line with the label is in the document once when present holds and
\* not at all otherwise
LineWhen(doc, label, present) ==
  Cardinality(LinesOf(doc, label)) = (IF present THEN 1 ELSE 0)

\* the author line follows an empty line
AuthorAfterBlank(doc) ==
  \A i \in LinesOf(doc, "author") : i > 1 /\ doc[i - 1] = BlankLine

\* C15 as stated: every rendered document has the header and the five core
\* lines, has the issues line, the extra line and the author line (after an
\* empty line) exactly when the stored field is non-empty, and two renderings
\* of one record are equal.
C15_LinesAsStated ==
  \A k \in 1..Len(docs) :
    /\ CoreLines(docs[k], rec)
    /\ LineWhen(docs[k], "issues", GetOrEmpty(rec, "issues") # <<>>)
    /\ LineWhen(docs[k], "extra", GetOrEmpty(rec, "extra") # <<>>)
    /\ LineWhen(docs[k], "author", GetOrEmpty(rec, "author") # <<>>)
    /\ AuthorAfterBlank(docs[k])
    /\ docs[k] = docs[1]

\* C15 amended: every rendered document has the header and the five core
\* lines, has the issues line, the extra line and the author line (after an
\* empty line) exactly when the stored field is non-empty after trimming
\* whitespace, and two renderings of one record are equal.
C15_LinesWhenNotBlank ==
  \A k \in 1..Len(docs) :
    /\ CoreLines(docs[k], rec)
    /\ LineWhen(docs[k], "issues", strip(GetOrEmpty(rec, "issues")) # <<>>)
    /\ LineWhen(docs[k], "extra", strip(GetOrEmpty(rec, "extra")) # <<>>)
    /\ LineWhen(docs[k], "author", strip(GetOrEmpty(rec, "author")) # <<>>)
    /\ AuthorAfterBlank(docs[k])
    /\ docs[k] = docs[1]

\* a record with an issues text and an author of whitespace only, rendered
\* twice: the issues line is there, the author line is not
C15_Witness ==
  /\ Len(docs) = 2
  /\ rec["issues"] = Some(<<"b", "u", "g">>)
  /\ rec["author"] = Some(<<" ">>)
  /\ LinesOf(docs[2], "issues") # {}
  /\ LinesOf(docs[2], "author") = {}
  /\ rec["game_title"] = None

\* C17: the event of one user leaves the phase, the fields and the media
\* lists of every other user as they were, whatever the order in which the
\* events of the users are handled.
C17_UsersIndependent ==
  [][\A v \in Users :
       v # out'.user
         => /\ fsm_state'[v] = fsm_state[v]
            /\ fsm_data'[v] = fsm_data[v]]_vars

\* an event of u1 was handled while u2 had a form with an image in MEDIA
C17_Witness ==
  /\ out.user = "u1" /\ out.handler = "media_done"
  /\ fsm_state["u1"] = "confirm" /\ Videos("u1") # <<>>
  /\ fsm_state["u2"] = "media" /\ Photos("u2") # <<>>

====
